---- MODULE Spec2Model ----
(***************************************************************************)
(* State-machine model of the Trade Violation Checker (src/app.py): the    *)
(* instrument registry, the "Add Multiple Entries" fill aggregation, the   *)
(* MAE / MLL decision arithmetic, and the news archive pipeline.           *)
(*                                                                         *)
(* Numbers.  Prices are integers in units of 1/PriceScale point (the       *)
(* resolution of round(.., 4)).  Tick sizes are integers in units of       *)
(* 1/TickDen point, and a tick value is in units of 1/TickDen dollar.      *)
(* Balances are whole dollars.  Every value the model draws is a dyadic or *)
(* short decimal for which the program's float arithmetic is exact, so the *)
(* exact integer arithmetic below computes what the program computes.      *)
(* Times are naive wall-clock seconds; an instant is seconds on the UTC    *)
(* line.                                                                   *)
(***************************************************************************)
EXTENDS Integers, Sequences, FiniteSets, TLC

VARIABLES
    instrument_sheet,   \* external "Instruments" worksheet (rows)
    instruments_df,     \* st.session_state.instruments_df
    instrument,         \* selectbox choice: a key of INSTRUMENTS
    qty,                \* st.session_state.qty
    fill_price,         \* st.session_state.fill_price
    high_low,           \* st.session_state.high_low
    balance_before,     \* st.session_state.balance_before
    mll,                \* st.session_state.mll
    violation_time,     \* st.session_state.violation_time
    result,             \* what the last script run displayed (sections 8, 8.1, 8.2)
    dialog,             \* the last "Extract & Apply" click of multi_entry_dialog
    archive_sheet,      \* external "News_Archive" worksheet (rows)
    cache,              \* st.cache_data entry of fetch_live_news
    cache_age,          \* seconds since the cache entry was stored
    started,            \* "news_archive_df" in st.session_state
    news_archive_df,    \* st.session_state.news_archive_df
    sync_log            \* what the last step did to the news pipeline

vars == <<instrument_sheet, instruments_df, instrument, qty, fill_price, high_low,
          balance_before, mll, violation_time, result, dialog, archive_sheet,
          cache, cache_age, started, news_archive_df, sync_log>>

tradeVars == <<qty, fill_price, high_low, balance_before, mll>>
registryVars == <<instrument_sheet, instruments_df, instrument>>
newsVars == <<archive_sheet, cache, cache_age, started, news_archive_df, sync_log>>

-----------------------------------------------------------------------------
(* Scales and small helpers *)

PriceScale == 10000
TickDen == 4

Abs(x) == IF x < 0 THEN -x ELSE x

\* a price of `whole` points and `frac` ten-thousandths
Px(whole, frac) == whole * PriceScale + frac

NoTime == [kind |-> "empty", t |-> 0]

-----------------------------------------------------------------------------
(* 1. Constants & Defaults *)

DEFAULT_INSTRUMENTS ==
    << [Instrument |-> "NQ", vpp |-> 20, tick_size |-> 1],
       [Instrument |-> "ES", vpp |-> 50, tick_size |-> 1] >>

STATE_DEFAULTS ==
    [qty |-> 2, fill_price |-> Px(24798, 2500), high_low |-> Px(24848, 0),
     balance_before |-> 0, mll |-> -2000, violation_time |-> NoTime]

-----------------------------------------------------------------------------
(* 3. Instrument registry *)

\* str(..).strip() on the instrument names the model draws
StripStr(s) ==
    CASE s = " NQ " -> "NQ"
      [] s = " "    -> ""
      [] s = " CPI " -> "CPI"
      [] OTHER      -> s

\* "Ticks per Pt": 1 / tick_size if tick_size else 0
TicksPerPt(tick_size) == IF tick_size # 0 THEN TickDen \div tick_size ELSE 0

\* "Tick Value": val_per_pt * tick_size
TickValue(val_per_pt, tick_size) == val_per_pt * tick_size

\* INSTRUMENTS[name] = {...}: a dict keeps the first insertion's place and the
\* last insertion's value
DictPut(d, e) ==
    IF \E i \in 1..Len(d) : d[i].name = e.name
    THEN [i \in 1..Len(d) |-> IF d[i].name = e.name THEN e ELSE d[i]]
    ELSE Append(d, e)

RECURSIVE BuildInstruments(_, _)
BuildInstruments(rows, acc) ==
    IF rows = <<>> THEN acc
    ELSE LET row == Head(rows)
             name == StripStr(row.Instrument)
             e == [name |-> name,
                   TickValue |-> TickValue(row.vpp, row.tick_size),
                   TicksPerPt |-> TicksPerPt(row.tick_size)]
         IN IF name = "" THEN BuildInstruments(Tail(rows), acc)
            ELSE BuildInstruments(Tail(rows), DictPut(acc, e))

\* faulty variant of Sentinel: an empty registry falling back to NQ's factors
SentinelAsDefault == [name |-> "None", TickValue |-> 20, TicksPerPt |-> 4]

\* if not INSTRUMENTS: INSTRUMENTS["None"] = {"Tick Value": 0.0, "Ticks per Pt": 0.0}
Sentinel == [name |-> "None", TickValue |-> 0, TicksPerPt |-> 0]

INSTRUMENTS(df) ==
    LET d == BuildInstruments(df, <<>>)
    IN IF d = <<>> THEN <<Sentinel>> ELSE d

Lookup(df, name) ==
    LET d == INSTRUMENTS(df)
    IN d[CHOOSE i \in 1..Len(d) : d[i].name = name]

FirstKey(df) == INSTRUMENTS(df)[1].name

Keys(df) == {INSTRUMENTS(df)[i].name : i \in 1..Len(INSTRUMENTS(df))}

\* conn.read(worksheet="Instruments") with the fallback to the built-in set
LoadInstruments(sheet, readOk) ==
    IF readOk /\ sheet # <<>> THEN sheet ELSE DEFAULT_INSTRUMENTS

-----------------------------------------------------------------------------
(* 8. Math & Output *)

\* abs(mae) = abs(high_low - fill_price) * t_val * t_pt * abs(qty), as dollars
\* and a fraction of a dollar in units of 1/(TickDen * PriceScale)
MaeAbs(q, fp, hl, t_val, t_pt) ==
    LET unit == TickDen * PriceScale
        exc == Abs(hl - fp)
        k == t_val * t_pt * Abs(q)
        low == (exc % unit) * k
    IN [dollars |-> (exc \div unit) * k + (low \div unit), frac |-> low % unit]

\* faulty variant of IsInvalid: abs(mae) < dist_2_mll, equality excluded
IsInvalidStrict(mae_abs, dist) ==
    mae_abs.dollars < dist

\* is_invalid = abs(mae) <= dist_2_mll
IsInvalid(mae_abs, dist) ==
    \/ mae_abs.dollars < dist
    \/ mae_abs.dollars = dist /\ mae_abs.frac = 0

\* 8.2: the first row of news_df within 60 seconds of the violation time
EventTolerance == 60
CentralOffset == 21600
EasternOffset == 18000

Localize(wall, offset) == wall + offset

\* faulty variant of FirstWithin: the closest row within the tolerance
ClosestWithin(news_df, vt_dt) ==
    LET hits == {i \in 1..Len(news_df) :
                    Abs(vt_dt - news_df[i].Event_Time) <= EventTolerance}
        best == CHOOSE i \in hits :
                    \A j \in hits :
                        \/ Abs(vt_dt - news_df[i].Event_Time) < Abs(vt_dt - news_df[j].Event_Time)
                        \/ /\ Abs(vt_dt - news_df[i].Event_Time) = Abs(vt_dt - news_df[j].Event_Time)
                           /\ i <= j
    IN IF hits = {} THEN "none" ELSE news_df[best].title

\* for _, row in news_df.iterrows(): ... if time_diff <= 60: ... break
RECURSIVE FirstWithin(_, _)
FirstWithin(news_df, vt_dt) ==
    IF news_df = <<>> THEN "none"
    ELSE IF Abs(vt_dt - Head(news_df).Event_Time) <= EventTolerance
         THEN Head(news_df).title
         ELSE FirstWithin(Tail(news_df), vt_dt)

NewsWarning(vt, news_df) ==
    IF vt.kind # "time" THEN "none"
    ELSE FirstWithin(news_df, Localize(vt.t, CentralOffset))

\* one run of sections 8 .. 8.2 of the script
Render(q, fp, hl, bb, m, inst, vt, news_df) ==
    LET mae == MaeAbs(q, fp, hl, inst.TickValue, inst.TicksPerPt)
        dist_2_mll == bb - m
        is_invalid == IsInvalid(mae, dist_2_mll)
    IN [mae_abs |-> mae,
        dist_2_mll |-> dist_2_mll,
        direction |-> IF q = 0 THEN "Flat" ELSE IF q > 0 THEN "Long" ELSE "Short",
        status |-> IF is_invalid THEN "Invalid" ELSE "Valid Violation",
        news_warning |-> NewsWarning(vt, news_df)]

\* what a step did to the news pipeline: whether the session held the archive
\* and the cache entry was usable before it, whether it synced and hit the
\* feed, how the worksheet's read and write went, whether it merged again a
\* batch the worksheet already holds, and whether the worksheet now holds the
\* merge of the cached batch
Log(op, ready, usable, synced, fetched, readOk, writeOk, repeat, inSheet) ==
    [op |-> op, ready_before |-> ready, usable_before |-> usable,
     synced |-> synced, fetched |-> fetched, read_ok |-> readOk,
     write_ok |-> writeOk, repeat |-> repeat, in_sheet |-> inSheet]

DialogClosed == [outcome |-> "closed", text |-> <<>>, fills |-> <<>>,
                 divided |-> FALSE]

-----------------------------------------------------------------------------
(* Inputs the model draws *)

InstrumentSheets ==
    { <<>>,
      << [Instrument |-> " ", vpp |-> 20, tick_size |-> 1] >>,
      << [Instrument |-> "NQ", vpp |-> 20, tick_size |-> 1],
         [Instrument |-> "ZT", vpp |-> 10, tick_size |-> 0] >>,
      << [Instrument |-> "NQ", vpp |-> 20, tick_size |-> 1],
         [Instrument |-> "FREE", vpp |-> 0, tick_size |-> 2] >>,
      << [Instrument |-> " NQ ", vpp |-> 20, tick_size |-> 1],
         [Instrument |-> "NQ", vpp |-> 50, tick_size |-> 2] >> }

MaxQty == 2
QtyInputs == (-MaxQty)..MaxQty
FillInputs == {Px(24798, 2500), Px(24799, 4167)}
HighLowInputs == {Px(24848, 0), Px(24900, 0), Px(24798, 2500)}
BalanceInputs == {0, -3000}
MllInputs == {-2000, -1990}

-----------------------------------------------------------------------------
(* Actions of the trade form: every widget change reruns the script *)

Rerender ==
    result' = Render(qty', fill_price', high_low', balance_before', mll',
                     Lookup(instruments_df', instrument'), violation_time',
                     news_archive_df')

SetQty ==
    /\ \E q \in QtyInputs : qty' = q
    /\ UNCHANGED <<fill_price, high_low, balance_before, mll, violation_time>>
    /\ UNCHANGED registryVars /\ UNCHANGED newsVars
    /\ dialog' = DialogClosed
    /\ Rerender

SetFillPrice ==
    /\ \E p \in FillInputs : fill_price' = p
    /\ UNCHANGED <<qty, high_low, balance_before, mll, violation_time>>
    /\ UNCHANGED registryVars /\ UNCHANGED newsVars
    /\ dialog' = DialogClosed
    /\ Rerender

SetHighLow ==
    /\ \E p \in HighLowInputs : high_low' = p
    /\ UNCHANGED <<qty, fill_price, balance_before, mll, violation_time>>
    /\ UNCHANGED registryVars /\ UNCHANGED newsVars
    /\ dialog' = DialogClosed
    /\ Rerender

SetBalance ==
    /\ \E b \in BalanceInputs : balance_before' = b
    /\ UNCHANGED <<qty, fill_price, high_low, mll, violation_time>>
    /\ UNCHANGED registryVars /\ UNCHANGED newsVars
    /\ dialog' = DialogClosed
    /\ Rerender

SetMll ==
    /\ \E m \in MllInputs : mll' = m
    /\ UNCHANGED <<qty, fill_price, high_low, balance_before, violation_time>>
    /\ UNCHANGED registryVars /\ UNCHANGED newsVars
    /\ dialog' = DialogClosed
    /\ Rerender

SelectInstrument ==
    /\ \E name \in Keys(instruments_df) : instrument' = name
    /\ UNCHANGED <<instrument_sheet, instruments_df>>
    /\ UNCHANGED tradeVars /\ UNCHANGED violation_time /\ UNCHANGED newsVars
    /\ dialog' = DialogClosed
    /\ Rerender

\* clear_all
ClearAll ==
    /\ qty' = 0
    /\ fill_price' = 0
    /\ high_low' = 0
    /\ balance_before' = 0
    /\ mll' = 0
    /\ violation_time' = NoTime
    /\ UNCHANGED registryVars /\ UNCHANGED newsVars
    /\ dialog' = DialogClosed
    /\ Rerender

\* manage_instruments_dialog, "Save to Cloud"
CleanRows(rows) == SelectSeq(rows, LAMBDA r : StripStr(r.Instrument) # "")

SaveInstruments ==
    \E edited \in InstrumentSheets, writeOk \in BOOLEAN, readOk \in BOOLEAN :
        /\ IF writeOk
           THEN /\ instrument_sheet' = CleanRows(edited)
                /\ instruments_df' = LoadInstruments(instrument_sheet', readOk)
                /\ instrument' = IF Keys(instruments_df') = Keys(instruments_df)
                                 THEN instrument ELSE FirstKey(instruments_df')
           ELSE UNCHANGED registryVars
        /\ UNCHANGED tradeVars /\ UNCHANGED violation_time /\ UNCHANGED newsVars
        /\ dialog' = DialogClosed
        /\ Rerender

-----------------------------------------------------------------------------
(* The trade form specification *)

Init ==
    /\ instrument_sheet \in InstrumentSheets
    /\ \E readOk \in BOOLEAN : instruments_df = LoadInstruments(instrument_sheet, readOk)
    /\ instrument = FirstKey(instruments_df)
    /\ qty = STATE_DEFAULTS.qty
    /\ fill_price = STATE_DEFAULTS.fill_price
    /\ high_low = STATE_DEFAULTS.high_low
    /\ balance_before = STATE_DEFAULTS.balance_before
    /\ mll = STATE_DEFAULTS.mll
    /\ violation_time = STATE_DEFAULTS.violation_time
    /\ dialog = DialogClosed
    /\ archive_sheet = <<>>
    /\ cache = [valid |-> TRUE, value |-> <<>>]
    /\ cache_age = 0
    /\ started = TRUE
    /\ news_archive_df = <<>>
    /\ sync_log = Log("start", FALSE, FALSE, FALSE, FALSE, FALSE, FALSE, FALSE, FALSE)
    /\ result = Render(qty, fill_price, high_low, balance_before, mll,
                       Lookup(instruments_df, instrument), violation_time,
                       news_archive_df)

Next ==
    \/ SetQty
    \/ SetFillPrice
    \/ SetHighLow
    \/ SetBalance
    \/ SetMll
    \/ SelectInstrument
    \/ ClearAll
    \/ SaveInstruments

Spec == Init /\ [][Next]_vars

-----------------------------------------------------------------------------
(* 5. multi_entry_dialog: "Extract & Apply" *)

(* A pasted line is a sequence of tab-separated fields, and a field is the  *)
(* sequence of its whitespace-separated tokens.                             *)

\* s.replace(',', '')
StripCommas(s) == IF s = "24,800" THEN "24800" ELSE s

\* the numeric value of a token: whether float(s) succeeds, whether int(s)
\* succeeds, and the value in price units
ParseNum(s) ==
    CASE s = "0"        -> [ok |-> TRUE, int |-> TRUE, v |-> Px(0, 0)]
      [] s = "1"        -> [ok |-> TRUE, int |-> TRUE, v |-> Px(1, 0)]
      [] s = "2"        -> [ok |-> TRUE, int |-> TRUE, v |-> Px(2, 0)]
      [] s = "-1"       -> [ok |-> TRUE, int |-> TRUE, v |-> Px(-1, 0)]
      [] s = "-2"       -> [ok |-> TRUE, int |-> TRUE, v |-> Px(-2, 0)]
      [] s = "-50"      -> [ok |-> TRUE, int |-> TRUE, v |-> Px(-50, 0)]
      [] s = "100"      -> [ok |-> TRUE, int |-> TRUE, v |-> Px(100, 0)]
      [] s = "250"      -> [ok |-> TRUE, int |-> TRUE, v |-> Px(250, 0)]
      [] s = "24800"    -> [ok |-> TRUE, int |-> TRUE, v |-> Px(24800, 0)]
      [] s = "24848"    -> [ok |-> TRUE, int |-> TRUE, v |-> Px(24848, 0)]
      [] s = "24798.25" -> [ok |-> TRUE, int |-> FALSE, v |-> Px(24798, 2500)]
      [] s = "2.0"      -> [ok |-> TRUE, int |-> FALSE, v |-> Px(2, 0)]
      [] OTHER          -> [ok |-> FALSE, int |-> FALSE, v |-> 0]

NoFill == [ok |-> FALSE, Qty |-> 0, Price |-> 0]

\* q = int(q_str); p = float(p_str), a ValueError giving no fill
ToFill(q_str, p_str) ==
    LET q == ParseNum(q_str)
        p == ParseNum(p_str)
    IN IF q.int /\ p.ok
       THEN [ok |-> TRUE, Qty |-> q.v \div PriceScale, Price |-> p.v]
       ELSE NoFill

\* line.strip(): leading and trailing whitespace goes, tabs included
RECURSIVE StripLeft(_)
StripLeft(line) ==
    IF line # <<>> /\ Head(line) = <<>> THEN StripLeft(Tail(line)) ELSE line

RECURSIVE StripRight(_)
StripRight(line) ==
    IF line # <<>> /\ line[Len(line)] = <<>>
    THEN StripRight(SubSeq(line, 1, Len(line) - 1))
    ELSE line

StripLine(line) == StripRight(StripLeft(line))

\* line.split()
RECURSIVE SplitSpaces(_)
SplitSpaces(line) ==
    IF line = <<>> THEN <<>> ELSE Head(line) \o SplitSpaces(Tail(line))

\* tab_parts[i].replace(',', '').strip(): a field that is one token is that
\* token; anything else is a string no number parser accepts
FieldStr(field) == IF Len(field) = 1 THEN StripCommas(field[1]) ELSE "?"

\* variant of ParseLine with the layout of parse_pasted_data (never called):
\* at least 11 tab fields, price from index 10
ParseLineLastColumn(raw_line) ==
    LET line == StripLine(raw_line)
        space_parts == SplitSpaces(line)
    IN IF line = <<>> THEN NoFill
       ELSE IF Len(line) >= 11
            THEN ToFill(FieldStr(line[8]), FieldStr(line[11]))
            ELSE IF Len(space_parts) >= 2
                 THEN ToFill(StripCommas(space_parts[1]), StripCommas(space_parts[2]))
                 ELSE NoFill

\* the body of "for line in lines": the fill a line adds, if any
ParseLine(raw_line) ==
    LET line == StripLine(raw_line)
        space_parts == SplitSpaces(line)
    IN IF line = <<>> THEN NoFill
       ELSE IF Len(line) >= 10
            THEN ToFill(FieldStr(line[8]), FieldStr(line[10]))
            ELSE IF Len(space_parts) >= 2
                 THEN ToFill(StripCommas(space_parts[1]), StripCommas(space_parts[2]))
                 ELSE NoFill

\* total_qty += q; total_value += (q * p)
RECURSIVE Totals(_)
Totals(fills) ==
    IF fills = <<>> THEN [total_qty |-> 0, total_value |-> 0]
    ELSE LET f == Head(fills)
             rest == Totals(Tail(fills))
         IN IF f.ok
            THEN [total_qty |-> f.Qty + rest.total_qty,
                  total_value |-> f.Qty * f.Price + rest.total_value]
            ELSE rest

\* faulty variant of AvgPrice: the 4th decimal truncated instead of rounded
AvgPriceTruncated(total_value, total_qty) ==
    Abs(total_value) \div Abs(total_qty)

\* round(abs(total_value / total_qty), 4), in price units
AvgPrice(total_value, total_qty) ==
    LET n == Abs(total_value)
        d == Abs(total_qty)
        quo == n \div d
        rem == n % d
    IN IF 2 * rem < d THEN quo
       ELSE IF 2 * rem > d THEN quo + 1
       ELSE IF quo % 2 = 0 THEN quo ELSE quo + 1

\* faulty variant of Apply: the total_qty != 0 test missing
ApplyAlways(total_qty, total_value, cur_qty, cur_fill) ==
    IF total_qty # 0
    THEN [outcome |-> "applied", divided |-> TRUE, qty |-> total_qty,
          fill_price |-> AvgPrice(total_value, total_qty)]
    ELSE [outcome |-> "applied", divided |-> FALSE, qty |-> 0, fill_price |-> 0]

\* "if total_qty != 0: ... else: st.error(...)"
Apply(total_qty, total_value, cur_qty, cur_fill) ==
    IF total_qty # 0
    THEN [outcome |-> "applied", divided |-> TRUE, qty |-> total_qty,
          fill_price |-> AvgPrice(total_value, total_qty)]
    ELSE [outcome |-> "error", divided |-> FALSE, qty |-> cur_qty,
          fill_price |-> cur_fill]

(* Pasted lines the model draws *)
Simple(q, p) == << <<q, p>> >>
Filler == <<"x">>
Broker(q, f9, rest) ==
    <<Filler, Filler, Filler, Filler, Filler, Filler, Filler, <<q>>, Filler, <<f9>>>> \o rest

\* the pasted lines the model draws; a text names its lines by their place here
SampleLines ==
    << Simple("2", "24798.25"),                    \* "2 24798.25"
       Broker("-2", "24,800", <<>>),               \* ten tab fields
       Broker("2", "100", << <<"250">> >>),        \* eleven tab fields
       << <<"-1", "250", "x">> >>,                 \* three tokens
       Simple("1", "-50"),                         \* a negative price
       << <<>>, <<"Qty">>, <<"Price">> >>,         \* a header row after a tab
       << <<>> >> >>                               \* a blank line

MaxLines == 2

Texts == UNION {[1..n -> 1..Len(SampleLines)] : n \in 1..MaxLines}

\* the lines of a text
LinesOf(text) == [i \in 1..Len(text) |-> SampleLines[text[i]]]

\* the loop over the lines of one pasted text
LoopOver(raw_text) ==
    LET fills == [i \in 1..Len(raw_text) |-> ParseLine(raw_text[i])]
    IN [fills |-> fills, tot |-> Totals(fills),
        blank |-> \A i \in 1..Len(raw_text) : StripLine(raw_text[i]) = <<>>]

\* (f @@ <<>> is f, computed once for every text instead of at each use)
LoopResults == [text \in Texts |-> LoopOver(LinesOf(text))] @@ <<>>

ExtractApply ==
    \E raw_text \in Texts :
        LET fills == LoopResults[raw_text].fills
            tot == LoopResults[raw_text].tot
            out == Apply(tot.total_qty, tot.total_value, qty, fill_price)
        IN IF LoopResults[raw_text].blank
           THEN \* st.warning("Please paste some data first.")
                /\ dialog' = [outcome |-> "warning", text |-> raw_text,
                              fills |-> fills, divided |-> FALSE]
                /\ UNCHANGED <<qty, fill_price, result>>
                /\ UNCHANGED <<high_low, balance_before, mll, violation_time>>
                /\ UNCHANGED registryVars /\ UNCHANGED newsVars
           ELSE /\ dialog' = [outcome |-> out.outcome, text |-> raw_text,
                              fills |-> fills, divided |-> out.divided]
                /\ qty' = out.qty
                /\ fill_price' = out.fill_price
                /\ UNCHANGED <<high_low, balance_before, mll, violation_time>>
                /\ UNCHANGED registryVars /\ UNCHANGED newsVars
                /\ Rerender

\* the defaults of a fresh session, instruments from the built-in set
InitFills ==
    /\ instrument_sheet = <<>>
    /\ instruments_df = DEFAULT_INSTRUMENTS
    /\ instrument = FirstKey(instruments_df)
    /\ qty = STATE_DEFAULTS.qty
    /\ fill_price = STATE_DEFAULTS.fill_price
    /\ high_low = STATE_DEFAULTS.high_low
    /\ balance_before = STATE_DEFAULTS.balance_before
    /\ mll = STATE_DEFAULTS.mll
    /\ violation_time = STATE_DEFAULTS.violation_time
    /\ dialog = DialogClosed
    /\ archive_sheet = <<>>
    /\ cache = [valid |-> TRUE, value |-> <<>>]
    /\ cache_age = 0
    /\ started = TRUE
    /\ news_archive_df = <<>>
    /\ sync_log = Log("start", FALSE, FALSE, FALSE, FALSE, FALSE, FALSE, FALSE, FALSE)
    /\ result = Render(qty, fill_price, high_low, balance_before, mll,
                       Lookup(instruments_df, instrument), violation_time,
                       news_archive_df)

NextFills ==
    \/ ExtractApply
    \/ ClearAll

SpecFills == InitFills /\ [][NextFills]_vars

-----------------------------------------------------------------------------
(* 4. News fetcher and archive *)

(* A live row is [title, Event_Time] with Event_Time the US/Eastern wall     *)
(* clock in seconds.  A worksheet row holds Event_Time as the string         *)
(* '%Y-%m-%d %H:%M:%S', modelled as [d |-> day, s |-> second of the day].    *)
(* A row of the frame kept in the session holds Event_Time as an instant.    *)

DayLen == 86400
TTL == 3600

\* .dt.strftime('%Y-%m-%d %H:%M:%S')
Strftime(t) == [d |-> t \div DayLen, s |-> t % DayLen]

\* pd.to_datetime(<string>)
ToDatetime(str) == str.d * DayLen + str.s

\* pd.to_datetime(Event_Time).dt.date
DateOnly(str) == ToDatetime(str) \div DayLen

\* faulty variant of fetch_live_news: a cache entry that never expires
FetchLiveNoExpiry(c, age, net) ==
    IF c.valid
    THEN [value |-> c.value, cache |-> c, age |-> age, fetched |-> FALSE]
    ELSE [value |-> net, cache |-> [valid |-> TRUE, value |-> net], age |-> 0,
          fetched |-> TRUE]

\* @st.cache_data(ttl="1h") fetch_live_news(): the cached frame while the
\* entry is younger than the TTL, else the feed's answer `net` (empty when
\* the request or the parse fails), which is cached in its turn
fetch_live_news(c, age, net) ==
    IF c.valid /\ age < TTL
    THEN [value |-> c.value, cache |-> c, age |-> age, fetched |-> FALSE]
    ELSE [value |-> net, cache |-> [valid |-> TRUE, value |-> net], age |-> 0,
          fetched |-> TRUE]

\* 1. Clean Live Data
CleanLive(live_df) ==
    [i \in 1..Len(live_df) |->
        [title |-> StripStr(live_df[i].title),
         Event_Time |-> Strftime(live_df[i].Event_Time)]]

\* 2. Clean Archive Data
CleanArchive(archive_df) ==
    [i \in 1..Len(archive_df) |->
        [title |-> StripStr(archive_df[i].title),
         Event_Time |-> Strftime(ToDatetime(archive_df[i].Event_Time))]]

\* faulty variant of DropDuplicates: no row dropped
KeepAll(rows) == rows

\* 4. drop_duplicates(subset=['title', 'Date_Only'], keep='first')
DropDuplicates(rows) ==
    LET keep == {i \in 1..Len(rows) :
                    ~\E j \in 1..(i - 1) :
                        /\ rows[j].title = rows[i].title
                        /\ DateOnly(rows[j].Event_Time) = DateOnly(rows[i].Event_Time)}
        F[i \in 0..Len(rows)] ==
            IF i = 0 THEN <<>>
            ELSE IF i \in keep THEN Append(F[i - 1], rows[i]) ELSE F[i - 1]
    IN F[Len(rows)]

\* 3. and 4.: pd.concat([archive_df, live_df]) and the deduplication
Combine(archive_df, live_df) ==
    DropDuplicates(CleanArchive(archive_df) \o CleanLive(live_df))

\* the rehydration: to_datetime and tz_localize('US/Eastern')
EasternInstant(str) == Localize(ToDatetime(str), EasternOffset)

Rehydrate(archive_df) ==
    [i \in 1..Len(archive_df) |->
        [title |-> archive_df[i].title,
         Event_Time |-> EasternInstant(archive_df[i].Event_Time)]]

\* sort_values(by='Event_Time', ascending=False): every descending order of
\* the rows (the sort is not stable, so equal times may come in any order)
RECURSIVE SortedFrom(_, _)
SortedFrom(df, left) ==
    IF left = {} THEN {<<>>}
    ELSE UNION {{<<df[i]>> \o rest : rest \in SortedFrom(df, left \ {i})} :
                   i \in {k \in left :
                             \A j \in left : df[k].Event_Time >= df[j].Event_Time}}

SortedDescending(df) == SortedFrom(df, 1..Len(df))

\* faulty variant of sync_news_archive: the merged frame replaces archive_df
\* only once conn.update has succeeded, so a failed write returns the archive
\* as it was read
SyncReturnsStored(live_df, sheet, readOk, writeOk) ==
    LET archive_df == IF readOk THEN sheet ELSE <<>>
        combined_df == Combine(archive_df, live_df)
        merged == live_df # <<>>
        final_df == IF merged /\ writeOk THEN combined_df ELSE archive_df
    IN [sheet |-> IF merged /\ writeOk THEN combined_df ELSE sheet,
        returns |-> SortedDescending(Rehydrate(final_df))]

\* sync_news_archive(): the worksheet after the call and the frames it may
\* return, given the live frame, the worksheet, and whether the worksheet's
\* read and write succeed
sync_news_archive(live_df, sheet, readOk, writeOk) ==
    LET archive_df == IF readOk THEN sheet ELSE <<>>
        combined_df == Combine(archive_df, live_df)
        merged == live_df # <<>>
        final_df == IF merged THEN combined_df ELSE archive_df
    IN [sheet |-> IF merged /\ writeOk THEN combined_df ELSE sheet,
        returns |-> SortedDescending(Rehydrate(final_df))]

(* Inputs the model draws *)
Today == DayLen
LiveEvents ==
    { [title |-> "CPI",   Event_Time |-> Today + 30600],     \* 08:30:00
      [title |-> "FOMC",  Event_Time |-> Today + 30660],     \* 08:31:00
      [title |-> " CPI ", Event_Time |-> Today + 30900] }    \* 08:35:00

MaxLive == 1

LiveBatches == UNION {[1..n -> LiveEvents] : n \in 0..MaxLive}

\* the worksheet before the first session: empty, or one event of the day
\* before
ArchiveSheets ==
    { <<>>,
      << [title |-> " CPI ", Event_Time |-> [d |-> 0, s |-> 30600]] >> }

\* "Violation Time" as typed, read as US/Central wall clock
ViolationTimes ==
    { [kind |-> "text", t |-> 0],                  \* not a timestamp
      [kind |-> "time", t |-> Today + 27000],      \* 07:30:00 CT = 08:30:00 ET
      [kind |-> "time", t |-> Today + 27121] }     \* 07:32:01 CT = 08:32:01 ET

MaxAge == 3600
AgeSteps == {1800}

Usable == cache.valid /\ cache_age < TTL

\* lines 165-167 with the sync taken: "news_archive_df" is not in the session
\* or force_news_refresh is set.  `c` is the cache as the run finds it.
RunSync(op, c, net, readOk, writeOk) ==
    LET f == fetch_live_news(c, cache_age, net)
        r == sync_news_archive(f.value, archive_sheet, readOk, writeOk)
        wrote == f.value # <<>> /\ writeOk
        repeat == /\ ~f.fetched /\ sync_log.in_sheet
                  /\ f.value # <<>> /\ readOk /\ writeOk
    IN /\ cache' = f.cache
       /\ cache_age' = f.age
       /\ archive_sheet' = r.sheet
       /\ news_archive_df' \in r.returns
       /\ started' = TRUE
       /\ sync_log' = Log(op, started, Usable, TRUE, f.fetched, readOk, writeOk, repeat,
                          IF wrote THEN TRUE
                          ELSE IF f.fetched THEN FALSE
                          ELSE sync_log.in_sheet)

\* how the "Instruments" read may go: an empty worksheet loads the built-in
\* set whether or not the read succeeds
InstrumentReads == IF instrument_sheet = <<>> THEN {TRUE} ELSE BOOLEAN

\* a browser session opens: the script runs top to bottom on an empty
\* session state
StartSession ==
    \E net \in LiveBatches, readOk \in BOOLEAN, writeOk \in BOOLEAN,
       instrOk \in InstrumentReads :
        /\ qty' = STATE_DEFAULTS.qty
        /\ fill_price' = STATE_DEFAULTS.fill_price
        /\ high_low' = STATE_DEFAULTS.high_low
        /\ balance_before' = STATE_DEFAULTS.balance_before
        /\ mll' = STATE_DEFAULTS.mll
        /\ violation_time' = STATE_DEFAULTS.violation_time
        /\ UNCHANGED instrument_sheet
        /\ instruments_df' = LoadInstruments(instrument_sheet, instrOk)
        /\ instrument' = FirstKey(instruments_df')
        /\ dialog' = DialogClosed
        /\ RunSync("StartSession", cache, net, readOk, writeOk)
        /\ Rerender

\* "Force Sync News Archive": st.cache_data.clear(), force_news_refresh, rerun
ForceSync ==
    /\ started
    /\ \E net \in LiveBatches, readOk \in BOOLEAN, writeOk \in BOOLEAN :
           RunSync("ForceSync", [valid |-> FALSE, value |-> <<>>], net, readOk, writeOk)
    /\ UNCHANGED tradeVars /\ UNCHANGED violation_time /\ UNCHANGED registryVars
    /\ dialog' = DialogClosed
    /\ Rerender

\* the "Violation Time" box changes and the script reruns: the session holds
\* news_archive_df and force_news_refresh is False, so nothing is synced
SetViolationTime ==
    /\ started
    /\ \E vt \in ViolationTimes : violation_time' = vt
    /\ UNCHANGED tradeVars /\ UNCHANGED registryVars
    /\ UNCHANGED <<archive_sheet, cache, cache_age, started, news_archive_df>>
    /\ sync_log' = Log("Rerun", started, Usable, FALSE, FALSE, FALSE, FALSE, FALSE,
                       sync_log.in_sheet)
    /\ dialog' = DialogClosed
    /\ Rerender

\* time passes
Tick ==
    /\ \E d \in AgeSteps :
           /\ cache_age + d <= MaxAge
           /\ cache_age' = cache_age + d
    /\ UNCHANGED tradeVars /\ UNCHANGED violation_time /\ UNCHANGED registryVars
    /\ UNCHANGED <<archive_sheet, cache, started, news_archive_df, dialog, result>>
    /\ sync_log' = Log("Tick", started, Usable, FALSE, FALSE, FALSE, FALSE, FALSE,
                       sync_log.in_sheet)

\* before the first session: nothing cached, the worksheet as it was left
InitNews ==
    /\ instrument_sheet = <<>>
    /\ instruments_df = DEFAULT_INSTRUMENTS
    /\ instrument = FirstKey(instruments_df)
    /\ qty = STATE_DEFAULTS.qty
    /\ fill_price = STATE_DEFAULTS.fill_price
    /\ high_low = STATE_DEFAULTS.high_low
    /\ balance_before = STATE_DEFAULTS.balance_before
    /\ mll = STATE_DEFAULTS.mll
    /\ violation_time = STATE_DEFAULTS.violation_time
    /\ dialog = DialogClosed
    /\ archive_sheet \in ArchiveSheets
    /\ cache = [valid |-> FALSE, value |-> <<>>]
    /\ cache_age = 0
    /\ started = FALSE
    /\ news_archive_df = <<>>
    /\ sync_log = Log("start", FALSE, FALSE, FALSE, FALSE, FALSE, FALSE, FALSE, FALSE)
    /\ result = Render(qty, fill_price, high_low, balance_before, mll,
                       Lookup(instruments_df, instrument), violation_time,
                       news_archive_df)

NextNews ==
    \/ StartSession
    \/ ForceSync
    \/ SetViolationTime
    \/ Tick

SpecNews == InitNews /\ [][NextNews]_vars

-----------------------------------------------------------------------------
(* Claims about the decision engine, checked under Spec *)

\* |mae| <= dist, on the displayed values
Within(m, dist) == ~(m.dollars > dist \/ (m.dollars = dist /\ m.frac > 0))

\* C1: every evaluation classifies the trade as Invalid exactly when
\* |mae| <= distanceToMLL, where distanceToMLL = balanceBefore - mll, and as
\* Valid Violation otherwise; equality classifies as Invalid.
C1_InvalidIffWithinDistance ==
    /\ result.dist_2_mll = balance_before - mll
    /\ result.status \in {"Invalid", "Valid Violation"}
    /\ result.status = "Invalid" <=> Within(result.mae_abs, balance_before - mll)

\* C1 witness: a real loss that equals the distance to the cent, shown Invalid
C1_Witness ==
    /\ result.mae_abs.dollars > 0
    /\ result.mae_abs.dollars = balance_before - mll
    /\ result.mae_abs.frac = 0
    /\ result.status = "Invalid"

\* the selected instrument comes from no named row at all (the "None"
\* sentinel) or from a row whose Tick Size or Value per point is 0
DegenerateSource ==
    LET named == {i \in 1..Len(instruments_df) :
                      StripStr(instruments_df[i].Instrument) # ""}
        mine == {i \in named : StripStr(instruments_df[i].Instrument) = instrument}
        last == CHOOSE i \in mine : \A j \in mine : j <= i
    IN \/ named = {}
       \/ mine # {} /\ (instruments_df[last].tick_size = 0 \/ instruments_df[last].vpp = 0)

ZeroMae == result.mae_abs.dollars = 0 /\ result.mae_abs.frac = 0

\* C2 as stated: a degenerate instrument gives mae = 0 and always Invalid.
C2_DegenerateAlwaysInvalid ==
    DegenerateSource => ZeroMae /\ result.status = "Invalid"

\* C2 amended: a degenerate instrument gives mae = 0, and the evaluation is
\* Invalid exactly when balanceBefore >= mll (a negative distance to the MLL
\* is exceeded even by a zero loss).
C2_DegenerateInvalidIffNonNegativeDistance ==
    DegenerateSource =>
        /\ ZeroMae
        /\ result.status = "Invalid" <=> balance_before >= mll

\* C2 witness: a degenerate instrument, a real position and excursion, and a
\* balance below the limit, shown as a Valid Violation
C2_Witness ==
    /\ DegenerateSource
    /\ qty # 0 /\ high_low # fill_price
    /\ balance_before < mll
    /\ ZeroMae
    /\ result.status = "Valid Violation"

-----------------------------------------------------------------------------
(* Claims about the fill aggregation, checked under SpecFills *)

RECURSIVE SumQty(_)
SumQty(fills) ==
    IF fills = <<>> THEN 0
    ELSE (IF Head(fills).ok THEN Head(fills).Qty ELSE 0) + SumQty(Tail(fills))

RECURSIVE SumValue(_)
SumValue(fills) ==
    IF fills = <<>> THEN 0
    ELSE (IF Head(fills).ok THEN Head(fills).Qty * Head(fills).Price ELSE 0)
         + SumValue(Tail(fills))

IsBlankLine(line) == \A j \in 1..Len(line) : line[j] = <<>>

\* the click found something pasted
Pasted(d) ==
    /\ d.outcome # "closed"
    /\ \E i \in 1..Len(d.text) : ~IsBlankLine(SampleLines[d.text[i]])

\* price is the 4-decimal value nearest to |value / net|
NearestTo(price, value, net) ==
    2 * Abs(price * Abs(net) - Abs(value)) <= Abs(net)

\* C3: when the quantities of the pasted fills sum to exactly zero, Extract &
\* Apply ends in the error outcome, divides nothing, and leaves the session's
\* quantity and fill price as they were.
C3_ZeroNetFails ==
    [][(Pasted(dialog') /\ SumQty(dialog'.fills) = 0)
        => /\ dialog'.outcome = "error"
           /\ ~dialog'.divided
           /\ qty' = qty
           /\ fill_price' = fill_price]_vars

\* C3 witness: the fills (+2, 24798.25) and (-2, 24800) were pasted into the
\* default session, which still holds its quantity and fill price
C3_Witness ==
    /\ dialog.outcome = "error"
    /\ Len(dialog.fills) = 2
    /\ dialog.fills[1] = [ok |-> TRUE, Qty |-> 2, Price |-> Px(24798, 2500)]
    /\ dialog.fills[2] = [ok |-> TRUE, Qty |-> -2, Price |-> Px(24800, 0)]
    /\ qty = STATE_DEFAULTS.qty
    /\ fill_price = STATE_DEFAULTS.fill_price

\* every parsed fill has a strictly positive price
PositivePrices(fills) == \A i \in 1..Len(fills) : fills[i].ok => fills[i].Price > 0

\* C4 as stated: with a nonzero net quantity the session quantity is the sum
\* of the fill quantities and the session fill price is the weighted average
\* sum(quantity * price) / sum(quantity) (to the 4 decimals kept), also for
\* mixed long and short fills.  (Stated here for fills of positive price.)
C4_SignedWeightedAverage ==
    (Pasted(dialog) /\ SumQty(dialog.fills) # 0 /\ PositivePrices(dialog.fills))
        => /\ dialog.outcome = "applied"
           /\ qty = SumQty(dialog.fills)
           /\ 2 * Abs(fill_price * qty - SumValue(dialog.fills)) <= Abs(qty)

\* C4 amended: with a nonzero net quantity the session quantity is the sum of
\* the fill quantities and the session fill price is the absolute value of
\* sum(quantity * price) / sum(quantity), rounded to 4 decimals.
C4_AbsoluteRoundedAverage ==
    (Pasted(dialog) /\ SumQty(dialog.fills) # 0)
        => /\ dialog.outcome = "applied"
           /\ dialog.divided
           /\ qty = SumQty(dialog.fills)
           /\ fill_price >= 0
           /\ NearestTo(fill_price, SumValue(dialog.fills), SumQty(dialog.fills))

\* C4 witness: mixed long and short fills whose weighted average is negative
\* and was stored as its magnitude
C4_Witness ==
    /\ dialog.outcome = "applied"
    /\ \E i, j \in 1..Len(dialog.fills) :
           /\ dialog.fills[i].ok /\ dialog.fills[i].Qty > 0
           /\ dialog.fills[j].ok /\ dialog.fills[j].Qty < 0
    /\ PositivePrices(dialog.fills)
    /\ SumValue(dialog.fills) < 0 /\ SumQty(dialog.fills) > 0
    /\ fill_price > 0

\* the fills C5 keeps: a strictly positive price and a nonzero quantity
ValidFills(fills) == SelectSeq(fills, LAMBDA f : f.ok /\ f.Price > 0 /\ f.Qty # 0)

\* C5: a fill row whose price is not strictly positive, or whose quantity is
\* zero, is discarded before aggregation: it adds nothing to the net quantity
\* or the weighted average, and with no valid row left the aggregation fails.
C5_NonPositivePriceDiscarded ==
    Pasted(dialog) =>
        LET valid == ValidFills(dialog.fills)
        IN IF valid = <<>> \/ SumQty(valid) = 0
           THEN dialog.outcome = "error"
           ELSE /\ dialog.outcome = "applied"
                /\ qty = SumQty(valid)
                /\ NearestTo(fill_price, SumValue(valid), SumQty(valid))

\* the two strings a layout picks from a line, or none
Pick(q_str, p_str) == [some |-> TRUE, q |-> q_str, p |-> p_str]
PickNone == [some |-> FALSE, q |-> "?", p |-> "?"]
FillOf(pick) == IF pick.some THEN ToFill(pick.q, pick.p) ELSE NoFill

\* C6's layouts: at least 11 tab fields -> fields 7 and 10; otherwise exactly
\* two whitespace tokens
LayoutAsStated(raw_line) ==
    LET line == StripLine(raw_line)
        tokens == SplitSpaces(line)
    IN IF Len(line) >= 11 THEN Pick(FieldStr(line[8]), FieldStr(line[11]))
       ELSE IF Len(tokens) = 2 THEN Pick(StripCommas(tokens[1]), StripCommas(tokens[2]))
       ELSE PickNone

\* the layouts of the dialog: at least 10 tab fields -> fields 7 and 9;
\* otherwise at least two whitespace tokens, the first two
LayoutAmended(raw_line) ==
    LET line == StripLine(raw_line)
        tokens == SplitSpaces(line)
    IN IF Len(line) >= 10 THEN Pick(FieldStr(line[8]), FieldStr(line[10]))
       ELSE IF Len(tokens) >= 2 THEN Pick(StripCommas(tokens[1]), StripCommas(tokens[2]))
       ELSE PickNone

\* C6 as stated: a tab-delimited line with at least 11 fields takes quantity
\* from field 7 and price from field 10; any other line is read as exactly two
\* whitespace tokens, quantity then price; a line of neither layout gives no
\* fill.
C6_LayoutAsStated ==
    dialog.outcome # "closed" =>
        \A i \in 1..Len(dialog.text) :
            dialog.fills[i] = FillOf(LayoutAsStated(SampleLines[dialog.text[i]]))

\* C6 amended: a (trimmed) line with at least 10 tab fields takes quantity
\* from field 7 and price from field 9; any other line is split on whitespace
\* and, with at least two tokens, takes the first as quantity and the second
\* as price; a line of neither layout gives no fill.
C6_LayoutOfDialog ==
    dialog.outcome # "closed" =>
        /\ Len(dialog.fills) = Len(dialog.text)
        /\ \A i \in 1..Len(dialog.text) :
               dialog.fills[i] = FillOf(LayoutAmended(SampleLines[dialog.text[i]]))

\* C6 witness: one click parsed a line of exactly 10 tab fields and a line of
\* three whitespace tokens into fills
C6_Witness ==
    /\ dialog.outcome # "closed"
    /\ \E i, j \in 1..Len(dialog.text) :
           /\ Len(SampleLines[dialog.text[i]]) = 10
           /\ dialog.fills[i] = [ok |-> TRUE, Qty |-> -2, Price |-> Px(24800, 0)]
           /\ Len(SplitSpaces(SampleLines[dialog.text[j]])) = 3
           /\ dialog.fills[j] = [ok |-> TRUE, Qty |-> -1, Price |-> Px(250, 0)]

-----------------------------------------------------------------------------
(* Claims about the news pipeline, checked under SpecNews *)

\* the (trimmed title, calendar date) events of a worksheet
SheetKeys(sheet) ==
    {<<StripStr(sheet[i].title), sheet[i].Event_Time.d>> : i \in 1..Len(sheet)}

\* C7: merging again a live batch that the archive already holds leaves the
\* archive as it is: the same row count, the same (trimmed title, calendar
\* date) keys, the same rows.
C7_MergeIdempotent ==
    [][sync_log'.repeat =>
          /\ Len(archive_sheet') = Len(archive_sheet)
          /\ SheetKeys(archive_sheet') = SheetKeys(archive_sheet)
          /\ archive_sheet' = archive_sheet]_vars

\* C7 witness: the cached batch was merged a second time, and one of its
\* events is held by the archive under the same title and day at another time
C7_Witness ==
    /\ sync_log.repeat
    /\ \E i \in 1..Len(archive_sheet), j \in 1..Len(cache.value) :
           /\ archive_sheet[i].title = StripStr(cache.value[j].title)
           /\ archive_sheet[i].Event_Time.d = cache.value[j].Event_Time \div DayLen
           /\ archive_sheet[i].Event_Time.s # cache.value[j].Event_Time % DayLen

\* C8: across any sequence of syncs the archive only grows: every (trimmed
\* title, calendar date) event in the worksheet before a step is in it after.
C8_ArchiveOnlyGrows ==
    [][SheetKeys(archive_sheet) \subseteq SheetKeys(archive_sheet')]_vars

\* the same, for the steps whose read of the worksheet succeeded: the events
\* are lost only when a sync that could not read the worksheet writes it
ArchiveGrowsWhenRead ==
    [][(sync_log'.synced => sync_log'.read_ok)
          => SheetKeys(archive_sheet) \subseteq SheetKeys(archive_sheet')]_vars

\* the rows of the session's archive within the tolerance of the typed time,
\* read as US/Central
Hits ==
    {i \in 1..Len(news_archive_df) :
        Abs((violation_time.t + CentralOffset) - news_archive_df[i].Event_Time)
            <= EventTolerance}

FirstHit == CHOOSE i \in Hits : \A j \in Hits : i <= j

\* C9: for a parseable violation time an event is reported if and only if some
\* archive event lies within 60 seconds (inclusive) of it, and the one reported
\* is the first such event in the archive's order.
C9_FirstEventWithinTolerance ==
    violation_time.kind = "time" =>
        IF Hits = {} THEN result.news_warning = "none"
        ELSE result.news_warning = news_archive_df[FirstHit].title

\* C9 witness: two events within the tolerance, the reported one exactly 60
\* seconds away while a later row of the archive is closer
C9_Witness ==
    /\ violation_time.kind = "time"
    /\ Hits # {}
    /\ result.news_warning = news_archive_df[FirstHit].title
    /\ Abs((violation_time.t + CentralOffset) - news_archive_df[FirstHit].Event_Time)
           = EventTolerance
    /\ \E j \in Hits :
           /\ j > FirstHit
           /\ news_archive_df[j].title # news_archive_df[FirstHit].title
           /\ Abs((violation_time.t + CentralOffset) - news_archive_df[j].Event_Time)
                  < EventTolerance

\* C10 as stated: a Ready session goes back to fetching on the admin's cache
\* invalidation and also once the cached fetch is older than the one-hour
\* TTL; within the TTL and without invalidation an evaluation does not hit
\* the feed.
C10_ReadyRefetchesOnExpiry ==
    /\ sync_log.op = "ForceSync" => sync_log.fetched
    /\ (sync_log.op = "Rerun" /\ sync_log.ready_before /\ ~sync_log.usable_before)
           => sync_log.fetched
    /\ (sync_log.op = "Rerun" /\ sync_log.ready_before /\ sync_log.usable_before)
           => ~sync_log.fetched

\* C10 amended: a Ready session goes back to fetching only on the admin's
\* cache invalidation; its evaluations never sync or hit the feed, within the
\* TTL or after it; the expiry of the one-hour TTL makes the next sync, the
\* first run of a new session, fetch from the feed, and a new session within
\* the TTL reuses the cached fetch.
C10_ReadyRefetchesOnlyWhenForced ==
    /\ sync_log.op = "ForceSync" => sync_log.synced /\ sync_log.fetched
    /\ sync_log.op = "Rerun" =>
           sync_log.ready_before /\ ~sync_log.synced /\ ~sync_log.fetched
    /\ sync_log.op = "StartSession" =>
           sync_log.synced /\ (sync_log.fetched <=> ~sync_log.usable_before)
    /\ sync_log.fetched => cache_age = 0 /\ cache.valid

\* C10 witness: an evaluation in a Ready session whose cached fetch had
\* expired, and no fetch
C10_Witness ==
    /\ sync_log.op = "Rerun"
    /\ sync_log.ready_before
    /\ cache.valid /\ cache_age >= TTL
    /\ ~sync_log.usable_before
    /\ ~sync_log.fetched

\* the rows a merge of the live batch into the archive holds: the archive's
\* events as read, then every live event whose (trimmed title, date) is new,
\* each with its time as a US/Eastern instant
MergedRows(sheet, readOk, live) ==
    LET arch == IF readOk THEN sheet ELSE <<>>
        AKey(i) == <<StripStr(arch[i].title), arch[i].Event_Time.d>>
        LKey(i) == <<StripStr(live[i].title), live[i].Event_Time \div DayLen>>
        keptA == {i \in 1..Len(arch) : \A j \in 1..(i - 1) : AKey(j) # AKey(i)}
        keptL == {i \in 1..Len(live) :
                     /\ \A j \in 1..Len(arch) : AKey(j) # LKey(i)
                     /\ \A j \in 1..(i - 1) : LKey(j) # LKey(i)}
    IN {[title |-> StripStr(arch[i].title),
         Event_Time |-> arch[i].Event_Time.d * DayLen + arch[i].Event_Time.s
                            + EasternOffset] : i \in keptA}
       \cup {[title |-> StripStr(live[i].title),
               Event_Time |-> live[i].Event_Time + EasternOffset] : i \in keptL}

\* C11: a sync that merges a live batch hands the session the merged,
\* deduplicated archive + live rows (newest first) whether the write of the
\* worksheet succeeds or fails; a failed write raises nothing (the session is
\* loaded) and only leaves the worksheet as it was.
C11_WriteFailureReturnsMerged ==
    [][(sync_log'.synced /\ cache'.value # <<>>) =>
          LET want == MergedRows(archive_sheet, sync_log'.read_ok, cache'.value)
              got == news_archive_df'
          IN /\ started'
             /\ {got[i] : i \in 1..Len(got)} = want
             /\ Len(got) = Cardinality(want)
             /\ \A i \in 1..(Len(got) - 1) : got[i].Event_Time >= got[i + 1].Event_Time
             /\ ~sync_log'.write_ok => archive_sheet' = archive_sheet]_vars

\* C11 witness: a sync whose write failed, after which the session holds the
\* archive's event and the live one while the worksheet still lacks the latter
C11_Witness ==
    /\ sync_log.synced /\ sync_log.read_ok /\ ~sync_log.write_ok
    /\ started
    /\ archive_sheet # <<>>
    /\ cache.value # <<>>
    /\ Len(news_archive_df) > Len(archive_sheet)
    /\ \E i \in 1..Len(news_archive_df) :
           news_archive_df[i].Event_Time < DayLen + EasternOffset

====
